---- MODULE Spec2Model ----
(***************************************************************************)
(* Model of src/app.py: the report-generation script of the stock          *)
(* analyzer.  One button click runs the script body of lines 141-176:      *)
(* validate the ticker, call get_financial_data (lines 30-62), call        *)
(* generate_report (lines 64-102) and display the result.  The two         *)
(* external calls (the yfinance lookup and model.generate_content) are the *)
(* points where the environment chooses an outcome.                        *)
(*                                                                         *)
(* Texts are sequences of string tokens: every literal piece of an         *)
(* f-string is one token, every interpolated value is one token, and a     *)
(* ticker is spliced in character by character.  Numbers are fixed-point   *)
(* integers in thousandths (150126 stands for 150.126).                    *)
(***************************************************************************)
EXTENDS Integers, Sequences, FiniteSets, TLC

VARIABLES
    pc,              \* position of the script run
    api_key,         \* API_KEY after lines 15-20
    ticker_input,    \* line 132, upper-cased text of the input box
    report_language, \* line 113
    model_version,   \* line 121
    provider_calls,  \* number of yfinance lookups issued by this request
    lookup,          \* what the yfinance lookup answered
    hard_data,       \* line 150
    prompt_date,     \* datetime.now() of line 95
    gen_calls,       \* requests sent to model.generate_content (line 101)
    gen_result,      \* what the generation service answered
    report_content,  \* line 155
    warning,         \* st.warning of line 143 displayed
    status_msg,      \* text in the st.empty() placeholder of line 146
    markdown,        \* st.markdown of line 159
    download         \* st.download_button of lines 168-173

vars == <<pc, api_key, ticker_input, report_language, model_version,
          provider_calls, lookup, hard_data, prompt_date, gen_calls,
          gen_result, report_content, warning, status_msg, markdown,
          download>>

(***************************************************************************)
(* Bounds of the model.                                                    *)
(***************************************************************************)
\* at most this many info fields are perturbed (removed or mistyped)
MaxPerturb == 1
\* longest price-history series the provider returns
MaxHist == 2

(***************************************************************************)
(* Python values as the provider can deliver them.                         *)
(***************************************************************************)
Num(n) == [kind |-> "float", n |-> n, s |-> ""]
IntV(n) == [kind |-> "int", n |-> n, s |-> ""]
Str(s) == [kind |-> "str", n |-> 0, s |-> s]
NoneV == [kind |-> "none", n |-> 0, s |-> ""]

\* the default of every info.get(..., 'N/A')
NA == Str("N/A")

\* two decimal digits with a leading zero
TwoDigits(d) == IF d < 10 THEN "0" \o ToString(d) ELSE ToString(d)

\* three decimal digits with leading zeros
ThreeDigits(d) ==
    IF d < 10 THEN "00" \o ToString(d)
    ELSE IF d < 100 THEN "0" \o ToString(d) ELSE ToString(d)

\* str() of a float given in thousandths: shortest form, at least one decimal
FmtFloat(m) ==
    LET whole == m \div 1000
        frac == m % 1000
    IN  IF frac % 100 = 0 THEN ToString(whole) \o "." \o ToString(frac \div 100)
        ELSE IF frac % 10 = 0
             THEN ToString(whole) \o "." \o TwoDigits(frac \div 10)
             ELSE ToString(whole) \o "." \o ThreeDigits(frac)

\* how an f-string renders a value
Format(v) ==
    CASE v.kind = "float" -> FmtFloat(v.n)
      [] v.kind = "int" -> ToString(v.n)
      [] v.kind = "str" -> v.s
      [] v.kind = "none" -> "None"

\* round(x, 2) on thousandths: nearest hundredth, a tie goes to the even one
\* (the documented rule; the binary value of a decimal tie may lie on either
\* side of it, so the properties accept both neighbours of a tie)
Round2(m) ==
    LET q == m \div 10
        r == m % 10
    IN  IF r < 5 THEN q * 10
        ELSE IF r > 5 THEN (q + 1) * 10
        ELSE IF q % 2 = 0 THEN q * 10 ELSE (q + 1) * 10

\* str.upper() of line 132, character by character
UpperChar(c) ==
    CASE c = "a" -> "A" [] c = "d" -> "D" [] c = "n" -> "N"
      [] c = "p" -> "P" [] c = "l" -> "L" [] c = "v" -> "V"
      [] OTHER -> c

Upper(t) == [i \in 1..Len(t) |-> UpperChar(t[i])]


(***************************************************************************)
(* The provider's answer: stock.info and stock.history(period="1d").       *)
(***************************************************************************)
Absent == [kind |-> "absent", n |-> 0, s |-> ""]

Keys == {"currentPrice", "currency", "marketCap", "trailingPE", "forwardPE",
         "pegRatio", "priceToBook", "revenueGrowth", "fiftyTwoWeekHigh",
         "fiftyTwoWeekLow", "sector", "industry"}

\* an info mapping in which the provider filled every field
FullInfo ==
    [k \in Keys |->
        CASE k = "currentPrice" -> Num(150126)
          [] k = "currency" -> Str("EUR")
          [] k = "marketCap" -> IntV(2000000)
          [] k = "trailingPE" -> Num(35417)
          [] k = "forwardPE" -> Num(28100)
          [] k = "pegRatio" -> Num(1250)
          [] k = "priceToBook" -> Num(40000)
          [] k = "revenueGrowth" -> Num(122)
          [] k = "fiftyTwoWeekHigh" -> Num(153130)
          [] k = "fiftyTwoWeekLow" -> Num(75606)
          [] k = "sector" -> Str("Technology")
          [] k = "industry" -> Str("Semiconductors")]

\* FullInfo with the keys of A missing and the keys of M holding None
Perturbed(A, M) ==
    [k \in Keys |-> IF k \in A THEN Absent
                    ELSE IF k \in M THEN NoneV ELSE FullInfo[k]]

SmallSubsets(S, n) == {T \in SUBSET S : Cardinality(T) <= n}

\* every field missing, or up to MaxPerturb fields missing, or up to
\* MaxPerturb fields holding None
Infos ==
    {Perturbed(Keys, {})} \cup
    {Perturbed(A, {}) : A \in SmallSubsets(Keys, MaxPerturb)} \cup
    {Perturbed({}, M) : M \in SmallSubsets(Keys, MaxPerturb)}

\* closing prices: two numbers and a malformed entry
CloseValues == {Num(151234), Num(149995), Str("n/a")}

Histories == UNION {[1..n -> CloseValues] : n \in 0..MaxHist}

ProviderErrors == {"No data found, symbol may be delisted", "HTTPSConnectionPool: timed out"}

\* message of the TypeError round() raises on a close that is not a number
RoundTypeError == "type str doesn't define __round__ method"

NoLookup == [raised |-> FALSE, err |-> "", info |-> Perturbed(Keys, {}), history |-> <<>>]

(***************************************************************************)
(* get_financial_data, lines 30-62.                                        *)
(***************************************************************************)
\* info.get(k, d)
Get(info, k, d) == IF info[k].kind = "absent" THEN d ELSE info[k]

\* variant: the fields are read with info[k], so a missing key raises too
NormalizationRaisesOnMissing(info, history) ==
    \/ /\ Len(history) > 0
       /\ history[Len(history)].kind \notin {"float", "int"}
    \/ \E k \in Keys : info[k].kind = "absent"

\* lines 40-41 raise inside the try block: round() of a non-number
NormalizationRaises(info, history) ==
    /\ Len(history) > 0
    /\ history[Len(history)].kind \notin {"float", "int"}

\* variant: the direct quote is preferred to the history series
CurrentPriceQuoteFirst(info, history) ==
    IF info["currentPrice"].kind # "absent"
    THEN info["currentPrice"]
    ELSE IF Len(history) > 0
         THEN Num(Round2(history[Len(history)].n))
         ELSE NA

\* lines 40-43
CurrentPrice(info, history) ==
    IF Len(history) > 0
    THEN LET c == history[Len(history)]
         IN  IF c.kind = "int" THEN c ELSE Num(Round2(c.n))
    ELSE Get(info, "currentPrice", NA)

\* the ten labelled info fields of lines 49-58, in template order
FieldKeys == <<"marketCap", "trailingPE", "forwardPE", "pegRatio",
               "priceToBook", "revenueGrowth", "fiftyTwoWeekHigh",
               "fiftyTwoWeekLow", "sector", "industry">>

FieldLabels == <<"- Market Cap: ", "- Trailing P/E: ", "- Forward P/E: ",
                 "- PEG Ratio: ", "- Price/Book: ", "- Revenue Growth (yoy): ",
                 "- 52 Week High: ", "- 52 Week Low: ", "- Sector: ",
                 "- Industry: ">>

PriceLabel == "- Current Price: "

RECURSIVE FieldLinesOmitAbsent(_, _)
\* variant: a field the provider left out gets no line
FieldLinesOmitAbsent(info, i) ==
    IF i > Len(FieldKeys) THEN <<>>
    ELSE (IF info[FieldKeys[i]].kind = "absent" THEN <<>>
          ELSE <<FieldLabels[i], Format(info[FieldKeys[i]])>>)
         \o FieldLinesOmitAbsent(info, i + 1)

RECURSIVE FieldLines(_, _)
\* lines 49-58 from field i on
FieldLines(info, i) ==
    IF i > Len(FieldKeys) THEN <<>>
    ELSE <<FieldLabels[i], Format(Get(info, FieldKeys[i], NA))>>
         \o FieldLines(info, i + 1)

\* the f-string of lines 46-59
DataContext(ticker_symbol, info, history) ==
    <<"[Financial Data Context for ">> \o ticker_symbol \o
    <<"]", PriceLabel, Format(CurrentPrice(info, history)), " ",
      Format(Get(info, "currency", Str("USD")))>> \o
    FieldLines(info, 1)

\* the f-string of line 62
WarningText(e) ==
    <<"Warning: Could not fetch real-time data via yfinance (", e, ").">>

\* variant: a failed lookup yields the warning followed by an all-"N/A" block
get_financial_data_sentinel(ticker_symbol, r) ==
    IF r.raised
    THEN WarningText(r.err) \o DataContext(ticker_symbol, Perturbed(Keys, {}), <<>>)
    ELSE IF NormalizationRaises(r.info, r.history) THEN WarningText(RoundTypeError)
    ELSE DataContext(ticker_symbol, r.info, r.history)

\* get_financial_data(ticker_symbol) given the provider's answer r
get_financial_data(ticker_symbol, r) ==
    IF r.raised THEN WarningText(r.err)
    ELSE IF NormalizationRaises(r.info, r.history) THEN WarningText(RoundTypeError)
    ELSE DataContext(ticker_symbol, r.info, r.history)

(***************************************************************************)
(* generate_report, lines 64-102.                                          *)
(***************************************************************************)
Languages == {"SimplifiedChinese", "English"}

Models == {"gemini-2.5-flash", "gemini-2.5-flash-lite"}

DirectiveEnglish == "The final output MUST be in **ENGLISH**."

\* line 74; the parenthesised native name of the language is left out
DirectiveChinese == "The final output MUST be in **CHINESE**."

\* variant: the selector is compared with the file-name suffix
lang_instruction_suffix(language) ==
    IF language = "EN" THEN DirectiveEnglish ELSE DirectiveChinese

\* lines 71-74
lang_instruction(language) ==
    IF language = "English" THEN DirectiveEnglish ELSE DirectiveChinese

\* lines 86-92
Framework ==
    <<"Analysis Framework:",
      "1. **Fundamental Business**: Deconstruct business model, moat, and financial health.",
      "2. **Valuation & Ratios**: Analyze P/E, PEG, ROE relative to historicals and peers using the provided data.",
      "3. **Technical Analysis**: Describe current trend structure (Support/Resistance).",
      "4. **Industry & Competition**: Macro trends, TAM, and competitive landscape.",
      "5. **Qualitative**: Management, Risks, and Catalysts.",
      "6. **Conclusion**: Buy/Hold/Sell rating, Target Price logic, and Risk Mitigation.">>

\* variant: the context data is placed after the framework
PromptContextLast(ticker, financial_data, language, date) ==
    <<"Role: You are a world-class equity research analyst.",
      "Task: Conduct a comprehensive, in-depth analysis of the company: ">> \o
    ticker \o
    <<".", "**CRITICAL INSTRUCTION**: ", lang_instruction(language)>> \o
    Framework \o
    <<"Context Data (Real-time):">> \o
    financial_data \o
    <<"Format the response with Markdown headers, bullet points for readability.",
      "Current Date: ", date>>

\* the f-string of lines 77-96
Prompt(ticker, financial_data, language, date) ==
    <<"Role: You are a world-class equity research analyst.",
      "Task: Conduct a comprehensive, in-depth analysis of the company: ">> \o
    ticker \o
    <<".", "**CRITICAL INSTRUCTION**: ", lang_instruction(language),
      "Context Data (Real-time):">> \o
    financial_data \o
    Framework \o
    <<"Format the response with Markdown headers, bullet points for readability.",
      "Current Date: ", date>>

(***************************************************************************)
(* The script run: lines 15-26 and 106-176.                                *)
(***************************************************************************)
\* what os.getenv / st.secrets can hold; "" stands for a missing entry
KeyValues == {"", "K"}

\* text typed into the input box of line 132
TickerInputs == {<<>>, <<"n", "v", "d", "a">>, <<"N", "V", "D", "A">>,
                 <<"A", "a", "p", "l">>}

\* calendar days datetime.now() can fall on, in order
Days == {1, 2}

\* strftime("%Y-%m-%d"), line 95
IsoDate(d) == IF d = 1 THEN "2025-06-30" ELSE "2025-07-01"

\* strftime('%Y%m%d'), line 164
CompactDate(d) == IF d = 1 THEN "20250630" ELSE "20250701"

\* texts response.text can return
GenTexts == {"", "# NVDA: Buy\n- moat: wide"}

\* messages of the exceptions generate_content / response.text can raise
GenErrors == {"", "429 Resource has been exhausted"}

NoResult == [raised |-> FALSE, err |-> "", text |-> ""]

NoMarkdown == [shown |-> FALSE, text |-> ""]

NoDownload == [offered |-> FALSE, label |-> "", data |-> "", file_name |-> <<>>]

\* line 147; the text of the other language is marked [zh]
fetch_msg(ticker, language) ==
    IF language = "English"
    THEN <<"Fetching data for ">> \o ticker \o <<"...">>
    ELSE <<"[zh] Fetching ">> \o ticker \o <<" data...">>

\* lines 163-164
file_name(ticker, language, d) ==
    ticker \o <<"_Report_", IF language = "English" THEN "EN" ELSE "CN", "_",
                CompactDate(d), ".md">>

\* line 166
dl_label(language) ==
    IF language = "English" THEN "Download Report" ELSE "[zh] Download Markdown Report"

\* a fresh script run: nothing displayed, nothing requested
Fresh ==
    /\ ticker_input = <<>>
    /\ report_language = "SimplifiedChinese"
    /\ model_version = "gemini-2.5-flash-lite"
    /\ provider_calls = 0
    /\ lookup = NoLookup
    /\ hard_data = <<>>
    /\ prompt_date = 1
    /\ gen_calls = <<>>
    /\ gen_result = NoResult
    /\ report_content = ""
    /\ warning = FALSE
    /\ status_msg = <<>>
    /\ markdown = NoMarkdown
    /\ download = NoDownload

Init ==
    /\ pc = "Startup"
    /\ api_key = ""
    /\ Fresh

\* lines 15-26: read the credential, stop the script when there is none
Configure(env, secret) ==
    /\ pc = "Startup"
    /\ api_key' = IF env # "" THEN env ELSE secret
    /\ pc' = IF api_key' = "" THEN "Stopped" ELSE "Idle"
    /\ UNCHANGED <<ticker_input, report_language, model_version,
                   provider_calls, lookup, hard_data, prompt_date, gen_calls,
                   gen_result, report_content, warning, status_msg, markdown,
                   download>>

\* variant: the ticker is not checked before the lookup
ClickUnvalidated(text, language, model) ==
    /\ pc = "Idle"
    /\ ticker_input' = Upper(text)
    /\ report_language' = language
    /\ model_version' = model
    /\ status_msg' = fetch_msg(ticker_input', language)
    /\ provider_calls' = provider_calls + 1
    /\ pc' = "FetchingData"
    /\ UNCHANGED <<api_key, warning, lookup, hard_data, prompt_date, gen_calls,
                   gen_result, report_content, markdown, download>>

\* lines 113-150 up to the lookup: the widgets are read and the button pressed
Click(text, language, model) ==
    /\ pc = "Idle"
    /\ ticker_input' = Upper(text)
    /\ report_language' = language
    /\ model_version' = model
    /\ IF ticker_input' = <<>>
       THEN /\ warning' = TRUE
            /\ pc' = "Warned"
            /\ UNCHANGED <<status_msg, provider_calls>>
       ELSE /\ status_msg' = fetch_msg(ticker_input', language)
            /\ provider_calls' = provider_calls + 1
            /\ pc' = "FetchingData"
            /\ UNCHANGED warning
    /\ UNCHANGED <<api_key, lookup, hard_data, prompt_date, gen_calls,
                   gen_result, report_content, markdown, download>>

\* lines 35-60: the lookup answers with an info mapping and a history series
ProviderReturns(info, history) ==
    /\ pc = "FetchingData"
    /\ lookup' = [raised |-> FALSE, err |-> "", info |-> info, history |-> history]
    /\ hard_data' = get_financial_data(ticker_input, lookup')
    /\ pc' = IF NormalizationRaises(info, history) THEN "DataDegraded" ELSE "DataOk"
    /\ UNCHANGED <<api_key, ticker_input, report_language, model_version,
                   provider_calls, prompt_date, gen_calls, gen_result,
                   report_content, warning, status_msg, markdown, download>>

\* variant: a failed lookup ends the request with an error
ProviderRaisesAborts(e) ==
    /\ pc = "FetchingData"
    /\ lookup' = [raised |-> TRUE, err |-> e, info |-> Perturbed(Keys, {}),
                  history |-> <<>>]
    /\ status_msg' = <<"Error: ", e>>
    /\ pc' = "Failed"
    /\ UNCHANGED <<api_key, ticker_input, report_language, model_version,
                   provider_calls, hard_data, prompt_date, gen_calls, gen_result,
                   report_content, warning, markdown, download>>

\* lines 35-39 and 61-62: the lookup raises
ProviderRaises(e) ==
    /\ pc = "FetchingData"
    /\ lookup' = [raised |-> TRUE, err |-> e, info |-> Perturbed(Keys, {}),
                  history |-> <<>>]
    /\ hard_data' = get_financial_data(ticker_input, lookup')
    /\ pc' = "DataDegraded"
    /\ UNCHANGED <<api_key, ticker_input, report_language, model_version,
                   provider_calls, prompt_date, gen_calls, gen_result,
                   report_content, warning, status_msg, markdown, download>>

\* lines 153-155 and 68: the try block is entered, generate_report is called
CallGenerateReport ==
    /\ pc \in {"DataOk", "DataDegraded"}
    /\ pc' = "Assembling"
    /\ UNCHANGED <<api_key, ticker_input, report_language, model_version,
                   provider_calls, lookup, hard_data, prompt_date, gen_calls,
                   gen_result, report_content, warning, status_msg, markdown,
                   download>>

\* lines 70-101: the prompt is built and sent to the generation service
AssemblePrompt(d) ==
    /\ pc = "Assembling"
    /\ prompt_date' = d
    /\ gen_calls' = Append(gen_calls,
           [model |-> model_version,
            prompt |-> Prompt(ticker_input, hard_data, report_language, IsoDate(d))])
    /\ pc' = "Generating"
    /\ UNCHANGED <<api_key, ticker_input, report_language, model_version,
                   provider_calls, lookup, hard_data, gen_result,
                   report_content, warning, status_msg, markdown, download>>

\* lines 101-102 and 155-173: the service returns text, the report is shown
GenerationReturns(text, d) ==
    /\ pc = "Generating"
    /\ d >= prompt_date
    /\ gen_result' = [raised |-> FALSE, err |-> "", text |-> text]
    /\ report_content' = text
    /\ status_msg' = <<>>
    /\ markdown' = [shown |-> TRUE, text |-> report_content']
    /\ download' = [offered |-> TRUE, label |-> dl_label(report_language),
                    data |-> report_content',
                    file_name |-> file_name(ticker_input, report_language, d)]
    /\ pc' = "Succeeded"
    /\ UNCHANGED <<api_key, ticker_input, report_language, model_version,
                   provider_calls, lookup, hard_data, prompt_date, gen_calls,
                   warning>>

\* variant: the exception's own message is not shown
GenerationRaisesGeneric(e) ==
    /\ pc = "Generating"
    /\ gen_result' = [raised |-> TRUE, err |-> e, text |-> ""]
    /\ status_msg' = <<"Error: ", "report generation failed">>
    /\ pc' = "Failed"
    /\ UNCHANGED <<api_key, ticker_input, report_language, model_version,
                   provider_calls, lookup, hard_data, prompt_date, gen_calls,
                   report_content, warning, markdown, download>>

\* lines 101-102 and 175-176: the service call raises, the error is shown
GenerationRaises(e) ==
    /\ pc = "Generating"
    /\ gen_result' = [raised |-> TRUE, err |-> e, text |-> ""]
    /\ status_msg' = <<"Error: ", e>>
    /\ pc' = "Failed"
    /\ UNCHANGED <<api_key, ticker_input, report_language, model_version,
                   provider_calls, lookup, hard_data, prompt_date, gen_calls,
                   report_content, warning, markdown, download>>

\* the next interaction reruns the script from the top
Rerun ==
    /\ pc \in {"Stopped", "Warned", "Succeeded", "Failed"}
    /\ pc' = "Startup"
    /\ api_key' = ""
    /\ ticker_input' = <<>>
    /\ report_language' = "SimplifiedChinese"
    /\ model_version' = "gemini-2.5-flash-lite"
    /\ provider_calls' = 0
    /\ lookup' = NoLookup
    /\ hard_data' = <<>>
    /\ prompt_date' = 1
    /\ gen_calls' = <<>>
    /\ gen_result' = NoResult
    /\ report_content' = ""
    /\ warning' = FALSE
    /\ status_msg' = <<>>
    /\ markdown' = NoMarkdown
    /\ download' = NoDownload

Next ==
    \/ \E env \in KeyValues, secret \in KeyValues : Configure(env, secret)
    \/ \E text \in TickerInputs, language \in Languages, model \in Models :
           Click(text, language, model)
    \/ \E info \in Infos, history \in Histories : ProviderReturns(info, history)
    \/ \E e \in ProviderErrors : ProviderRaises(e)
    \/ CallGenerateReport
    \/ \E d \in Days : AssemblePrompt(d)
    \/ \E text \in GenTexts, d \in Days : GenerationReturns(text, d)
    \/ \E e \in GenErrors : GenerationRaises(e)
    \/ Rerun

Spec == Init /\ [][Next]_vars

\* the values the variables range over
TypeOK ==
    /\ pc \in {"Startup", "Stopped", "Idle", "Warned", "FetchingData", "DataOk",
               "DataDegraded", "Assembling", "Generating", "Succeeded", "Failed"}
    /\ api_key \in KeyValues
    /\ report_language \in Languages
    /\ model_version \in Models
    /\ provider_calls \in 0..1
    /\ Len(gen_calls) <= 1
    /\ prompt_date \in Days
    /\ warning \in BOOLEAN

(***************************************************************************)
(* Vocabulary of the properties.                                           *)
(***************************************************************************)
\* the data step of the request is over
DataStepDone ==
    pc \in {"DataOk", "DataDegraded", "Assembling", "Generating", "Succeeded", "Failed"}

\* the prompt has been sent to the generation service
PromptSent == pc \in {"Generating", "Succeeded", "Failed"}

\* the eleven labels of the context block, in the order the template lists them
ExpectedLabels ==
    <<"- Current Price: ", "- Market Cap: ", "- Trailing P/E: ",
      "- Forward P/E: ", "- PEG Ratio: ", "- Price/Book: ",
      "- Revenue Growth (yoy): ", "- 52 Week High: ", "- 52 Week Low: ",
      "- Sector: ", "- Industry: ">>

\* the provider field behind each label
ExpectedKeys ==
    <<"currentPrice", "marketCap", "trailingPE", "forwardPE", "pegRatio",
      "priceToBook", "revenueGrowth", "fiftyTwoWeekHigh", "fiftyTwoWeekLow",
      "sector", "industry">>

WarningHead == "Warning: Could not fetch real-time data via yfinance ("

\* position of label j in a context block built for a ticker of length L
LabelPos(L, j) == IF j = 1 THEN L + 3 ELSE L + 3 + 2 * j

\* position of the value rendered for label j
ValuePos(L, j) == LabelPos(L, j) + 1

\* ctx has the complete shape: header, ticker, eleven labelled fields in order
FullShape(ctx, ticker) ==
    /\ Len(ctx) = Len(ticker) + 26
    /\ ctx[1] = "[Financial Data Context for "
    /\ SubSeq(ctx, 2, Len(ticker) + 1) = ticker
    /\ \A j \in 1..11 : ctx[LabelPos(Len(ticker), j)] = ExpectedLabels[j]

\* some token of txt is one of the eleven labels
HasLabel(txt) == \E i \in 1..Len(txt), j \in 1..11 : txt[i] = ExpectedLabels[j]

\* the history series ends in something that is not a number
MalformedHistory(h) == Len(h) > 0 /\ h[Len(h)].kind = "str"

\* the provider left field k out
IsAbsent(info, k) == info[k].kind = "absent"

TheDirectives ==
    {"The final output MUST be in **ENGLISH**.",
     "The final output MUST be in **CHINESE**."}

OtherLanguage(l) == IF l = "English" THEN "SimplifiedChinese" ELSE "English"

(***************************************************************************)
(* C1.  A request with a non-empty ticker walks Idle -> FetchingData ->    *)
(* (DataOk | DataDegraded) -> Assembling -> Generating -> (Succeeded |     *)
(* Failed): whether the lookup returns or raises, the next steps lead to   *)
(* the generation call; FetchingData is never followed by Failed, and      *)
(* Failed is entered from Generating only.  A request that has reached     *)
(* Generating or an outcome after it has issued exactly one lookup and     *)
(* exactly one generation call.                                            *)
(***************************************************************************)
C1_PipelinePath ==
    /\ [][/\ (pc = "Idle" /\ ticker_input' # <<>>) => pc' = "FetchingData"
          /\ pc = "FetchingData" => pc' \in {"DataOk", "DataDegraded"}
          /\ pc \in {"DataOk", "DataDegraded"} => pc' = "Assembling"
          /\ pc = "Assembling" => (pc' = "Generating" /\ Len(gen_calls') = 1)
          /\ pc = "Generating" => pc' \in {"Succeeded", "Failed"}
          /\ (pc' = "Failed" /\ pc # "Failed") => pc = "Generating"]_vars
    /\ [](PromptSent => (provider_calls = 1 /\ Len(gen_calls) = 1))

\* the lookup raised and the generation service has been called all the same
C1_Witness == pc = "Generating" /\ lookup.raised /\ Len(gen_calls) = 1

(***************************************************************************)
(* C2.  A request whose ticker is empty ends in the warning (InvalidInput) *)
(* outcome: the warning is displayed, no report is displayed or offered,   *)
(* and neither the data provider nor the generation service was called.    *)
(***************************************************************************)
C2_EmptyTickerNoCalls ==
    (pc \notin {"Startup", "Stopped", "Idle"} /\ ticker_input = <<>>) =>
        /\ pc = "Warned"
        /\ warning
        /\ ~markdown.shown
        /\ ~download.offered
        /\ provider_calls = 0
        /\ gen_calls = <<>>

C2_Witness == pc = "Warned" /\ ticker_input = <<>> /\ warning

(***************************************************************************)
(* C3.  When the generation call raises, the request ends as a failure:    *)
(* no report is displayed or offered for download, and the message shown   *)
(* is non-empty and is "Error: " followed by the message of the exception  *)
(* the service raised.                                                     *)
(***************************************************************************)
C3_GenerationFailure ==
    (PromptSent /\ gen_result.raised) =>
        /\ pc = "Failed"
        /\ ~markdown.shown
        /\ ~download.offered
        /\ report_content = ""
        /\ status_msg # <<>>
        /\ status_msg = <<"Error: ", gen_result.err>>

\* the provider succeeded and the generation call raised
C3_Witness ==
    /\ pc = "Failed"
    /\ ~lookup.raised
    /\ Len(hard_data) > 3
    /\ gen_result.err # ""

(***************************************************************************)
(* C4.  Every exit of a request is either a success with a non-empty       *)
(* report text equal to the text the generation service returned, or a     *)
(* failure (warning, error message or stop) without a report; a success    *)
(* never carries an empty report and a report is never shown together with *)
(* an error.                                                               *)
(***************************************************************************)
C4_OutcomeClassified ==
    /\ pc = "Succeeded" =>
           /\ markdown.shown /\ download.offered
           /\ markdown.text = gen_result.text
           /\ download.data = gen_result.text
           /\ markdown.text # ""
           /\ status_msg = <<>> /\ ~warning
    /\ pc = "Failed" =>
           (~markdown.shown /\ ~download.offered /\ status_msg[1] = "Error: ")
    /\ pc = "Warned" => (~markdown.shown /\ ~download.offered /\ warning)
    /\ pc = "Stopped" => (~markdown.shown /\ ~download.offered /\ api_key = "")

C6_PricePriority ==
    (DataStepDone /\ ~lookup.raised /\ ~MalformedHistory(lookup.history)) =>
        LET h == lookup.history
            price == hard_data[ValuePos(Len(ticker_input), 1)]
            c == h[Len(h)].n
        IN  /\ Len(h) > 0 =>
                \E r \in (c - 5)..(c + 5) : r % 10 = 0 /\ price = FmtFloat(r)
            /\ (Len(h) = 0 /\ ~IsAbsent(lookup.info, "currentPrice")) =>
                price = Format(lookup.info["currentPrice"])
            /\ (Len(h) = 0 /\ IsAbsent(lookup.info, "currentPrice")) =>
                price = "N/A"

\* two history entries with different closes, and a direct quote that differs
C6_Witness ==
    /\ pc = "DataOk"
    /\ Len(lookup.history) = 2
    /\ lookup.history[1] = Num(149995)
    /\ lookup.history[2] = Num(151234)
    /\ lookup.info["currentPrice"] = Num(150126)
    /\ hard_data[ValuePos(Len(ticker_input), 1)] = "151.23"

C8_FixedShapeSentinels ==
    (DataStepDone /\ ~lookup.raised /\ ~MalformedHistory(lookup.history)) =>
        LET L == Len(ticker_input)
            allAbsent == /\ lookup.history = <<>>
                         /\ \A k \in Keys : IsAbsent(lookup.info, k)
        IN  /\ FullShape(hard_data, ticker_input)
            /\ hard_data[ValuePos(L, 1)] = "N/A" <=>
                   (lookup.history = <<>> /\ IsAbsent(lookup.info, "currentPrice"))
            /\ \A j \in 2..11 :
                   hard_data[ValuePos(L, j)] = "N/A" <=>
                       IsAbsent(lookup.info, ExpectedKeys[j])
            /\ allAbsent => \A j \in 1..11 : hard_data[ValuePos(L, j)] = "N/A"

\* the provider answered with nothing at all
C8_Witness ==
    /\ pc = "DataOk"
    /\ lookup.history = <<>>
    /\ \A k \in Keys : IsAbsent(lookup.info, k)
    /\ hard_data[ValuePos(Len(ticker_input), 11)] = "N/A"

(***************************************************************************)
(* C9.  The prompt sent contains exactly one directive string, the one of  *)
(* the selected language, and the prompt assembled for the other language  *)
(* from the same ticker, context and date differs from it in that one      *)
(* place only, where it holds the other directive.                         *)
(***************************************************************************)
C9_LanguageDirectiveOnly ==
    PromptSent =>
        LET p == gen_calls[1].prompt
            q == Prompt(ticker_input, hard_data, OtherLanguage(report_language),
                        IsoDate(prompt_date))
            D == {i \in 1..Len(p) : p[i] \in TheDirectives}
        IN  /\ Len(q) = Len(p)
            /\ Cardinality(D) = 1
            /\ \A i \in 1..Len(p) : i \notin D => q[i] = p[i]
            /\ \A i \in D :
                   /\ q[i] \in TheDirectives
                   /\ q[i] # p[i]
                   /\ p[i] = "The final output MUST be in **ENGLISH**." <=>
                          report_language = "English"

C9_Witness ==
    /\ pc = "Generating"
    /\ report_language = "English"
    /\ \E i \in 1..Len(gen_calls[1].prompt) :
           gen_calls[1].prompt[i] = "The final output MUST be in **ENGLISH**."

(***************************************************************************)
(* C10.  The prompt sent contains the context block of the data step       *)
(* verbatim as one contiguous piece, after the language directive and      *)
(* before the six-part analysis framework, for a normal context and for    *)
(* the warning context alike.                                              *)
(***************************************************************************)
C10_ContextVerbatim ==
    PromptSent =>
        LET p == gen_calls[1].prompt
            n == Len(hard_data)
        IN  \E i \in 1..Len(p) :
                /\ i + n + 6 <= Len(p)
                /\ SubSeq(p, i, i + n - 1) = hard_data
                /\ \E d \in 1..(i - 1) : p[d] \in TheDirectives
                /\ p[i + n] = "Analysis Framework:"
                /\ SubSeq(p, i + n + 1, i + n + 6) = Tail(Framework)

\* a normal, complete context block is inside the prompt sent
C10_Witness ==
    /\ pc = "Generating"
    /\ ~lookup.raised
    /\ FullShape(hard_data, ticker_input)
    /\ Len(gen_calls[1].prompt) > Len(hard_data)

====
